---- MODULE Spec2Model ----
(***************************************************************************)
(* Model of WebServiceModel (src/model.py): a simpy discrete-event         *)
(* simulation of a pool of single-capacity servers with an arrival         *)
(* generator, one handler process per request and one failure/recovery     *)
(* process, driven by run_simulation (src/app.py).                         *)
(*                                                                         *)
(* Time is counted in whole ticks.  The event queue is kept in the order   *)
(* in which simpy's heap pops it: by time, then urgent before normal,      *)
(* then by insertion.                                                      *)
(***************************************************************************)
EXTENDS Integers, Sequences, FiniteSets, TLC

\* ---------------------------------------------------------------- bounds
MaxServers == 2      \* largest num_servers explored
MaxRequests == 2     \* request ids minted by generate_requests
MaxTime == 2         \* simulation_time handed to run_simulation
MaxDelay == 1        \* largest duration a continuous distribution yields
MaxExperiments == 3  \* largest num_experiments handed to optimize_simulation

Requests == 1..MaxRequests
Durations == 0..MaxDelay

\* ------------------------------------------------------------- variables
VARIABLES
    params,              \* self.params
    constructed,         \* a WebServiceModel exists
    error,               \* exception that ended env.run, or "none"
    now,                 \* env.now
    t,                   \* loop variable of run_simulation
    queue,               \* simpy's event queue, in pop order
    capacity,            \* server._capacity, per server
    users,               \* server.users, per server
    put_queue,           \* server.put_queue, per server
    total_requests,
    completed_requests,
    failed_requests,
    latency,
    available_servers,
    request_id,          \* local of generate_requests
    fpc,                 \* position of server_failures
    fserver,             \* local `server` of server_failures (0: unset)
    hpc,                 \* position of each process_request
    hserver,             \* local `server` of each process_request (0: None)
    arrival_time,        \* local of each process_request
    processing_time,     \* local of each process_request
    completion_time,     \* env.now when a request was counted completed
    completed_ids,       \* request ids in the order their latency was appended
    results,             \* run_simulation (app.py): snapshots taken so far
    last_update,         \* run_simulation (app.py): t of the last periodic snapshot
    returned,            \* run_simulation has taken its final metrics
    num_experiments,     \* optimize_simulation: number of trials asked for
    all_results,         \* optimize_simulation: one entry per finished trial
    best_params,         \* optimize_simulation: <<>> for None, else <<params>>
    best_metrics         \* optimize_simulation: <<>> for None, else <<metrics>>

vars == <<params, constructed, error, now, t, queue, capacity, users, put_queue,
          total_requests, completed_requests, failed_requests, latency,
          available_servers, request_id, fpc, fserver, hpc, hserver,
          arrival_time, processing_time, completion_time, completed_ids,
          results, last_update, returned,
          num_experiments, all_results, best_params, best_metrics>>

\* The locals of run_simulation (app.py) and of optimize_simulation.
appvars == <<results, last_update, returned>>
optvars == <<num_experiments, all_results, best_params, best_metrics>>

\* --------------------------------------------------------------- helpers
Servers == 1..params.num_servers

Elems(seq) == {seq[i] : i \in 1..Len(seq)}

RECURSIVE Sum(_)
Sum(seq) == IF seq = <<>> THEN 0 ELSE Head(seq) + Sum(Tail(seq))

Event(time, urgent, kind, id, srv) ==
    [time |-> time, urgent |-> urgent, kind |-> kind, id |-> id, srv |-> srv]

Ahead_lifo(q, time, urgent) ==
    Cardinality({i \in 1..Len(q) :
        \/ q[i].time < time
        \/ q[i].time = time /\ q[i].urgent /\ ~urgent})

\* Number of queued events that are popped before a new event (time, urgent):
\* earlier time, or same time and not of lower priority (ties: insertion order).
Ahead(q, time, urgent) ==
    Cardinality({i \in 1..Len(q) :
        \/ q[i].time < time
        \/ q[i].time = time /\ (q[i].urgent \/ ~urgent)})

Schedule(q, ev) ==
    LET k == Ahead(q, ev.time, ev.urgent)
    IN  SubSeq(q, 1, k) \o <<ev>> \o SubSeq(q, k + 1, Len(q))

\* random.expovariate / uniform / gauss / choice as the set of ticks each can
\* return; kw carries the keyword arguments the caller passed.
random_value(distribution, kw) ==
    CASE distribution = "exponential" ->
            LET rate == IF "rate" \in DOMAIN kw THEN kw.rate ELSE 1
            IN  IF rate > 0 THEN Durations ELSE {-d : d \in Durations}
      [] distribution = "uniform" ->
            {v \in -MaxDelay..MaxDelay :
                \/ kw.low <= v /\ v <= kw.high
                \/ kw.high <= v /\ v <= kw.low}
      [] distribution = "normal" -> Durations
      [] distribution = "custom" ->
            IF "values" \in DOMAIN kw THEN Elems(kw.values) ELSE {1}
      [] OTHER -> {}

Supported == {"exponential", "uniform", "normal", "custom"}

\* Outcomes of `yield self.env.timeout(self.random_value(dist, rate=rate,
\* mean=1/rate, std=0.1, low=0.1, high=1/rate*2))`: a delay, or the exception.
RateDraw(distribution, rate) ==
    IF rate = 0 THEN {[err |-> "ZeroDivisionError", d |-> 0]}
    ELSE IF distribution \notin Supported THEN {[err |-> "ValueError", d |-> 0]}
    ELSE {IF v < 0 THEN [err |-> "ValueError", d |-> 0] ELSE [err |-> "none", d |-> v] :
            v \in random_value(distribution,
                    [rate |-> rate, mean |-> 1 \div rate, low |-> 0,
                     high |-> (1 \div rate) * 2])}

\* The same for the processing time: mean, std, low and high are passed, no rate
\* and no values.
ProcessingDraw ==
    LET dist == params.server_processing_time_distribution
        mean == params.server_processing_time
    IN  IF dist \notin Supported THEN {[err |-> "ValueError", d |-> 0]}
        ELSE {IF v < 0 THEN [err |-> "ValueError", d |-> 0] ELSE [err |-> "none", d |-> v] :
                v \in random_value(dist, [mean |-> mean, low |-> 0, high |-> mean * 2])}

\* ---------------------------------------------------------- configuration
Selectors == {"exponential", "custom"}
CustomValueSets == {<<1>>, <<3>>}

Config(n, spt, rr, fr, rc, da, dp, df, dr, cv) ==
    [num_servers |-> n, server_processing_time |-> spt, request_rate |-> rr,
     failure_rate |-> fr, recovery_rate |-> rc,
     request_rate_distribution |-> da,
     server_processing_time_distribution |-> dp,
     failure_rate_distribution |-> df,
     recovery_time_distribution |-> dr,
     custom_values |-> cv]

Configs ==
    {Config(n, 1, 1, 1, 1, da, dp, "exponential", "exponential", cv) :
        n \in 1..MaxServers, da \in Selectors, dp \in Selectors,
        cv \in CustomValueSets}

Base == Config(1, 1, 1, 1, 1, "exponential", "exponential", "exponential",
               "exponential", <<1>>)

\* Base with one field made non-positive (or custom_values emptied).
BadConfigs ==
    UNION {{[Base EXCEPT !.num_servers = v], [Base EXCEPT !.request_rate = v],
            [Base EXCEPT !.failure_rate = v], [Base EXCEPT !.recovery_rate = v],
            [Base EXCEPT !.server_processing_time = v]} : v \in {0, -1}}
    \cup {[Base EXCEPT !.custom_values = <<>>,
                       !.server_processing_time_distribution = "custom"]}

\* ------------------------------------------------------------------ Init
Blank(p) ==
    /\ params = p
    /\ constructed = FALSE
    /\ error = "none"
    /\ now = 0
    /\ t = 0
    /\ queue = <<>>
    /\ capacity = <<>>
    /\ users = <<>>
    /\ put_queue = <<>>
    /\ total_requests = 0
    /\ completed_requests = 0
    /\ failed_requests = 0
    /\ latency = <<>>
    /\ available_servers = 0
    /\ request_id = 0
    /\ fpc = "none"
    /\ fserver = 0
    /\ hpc = [r \in Requests |-> "none"]
    /\ hserver = [r \in Requests |-> 0]
    /\ arrival_time = [r \in Requests |-> 0]
    /\ processing_time = [r \in Requests |-> 0]
    /\ completion_time = [r \in Requests |-> 0]
    /\ completed_ids = <<>>
    /\ results = <<>>
    /\ last_update = 0
    /\ returned = FALSE

\* No optimisation experiment is under way.
NoExperiments ==
    /\ num_experiments = 0
    /\ all_results = <<>>
    /\ best_params = <<>>
    /\ best_metrics = <<>>

Init == \E p \in Configs : Blank(p) /\ NoExperiments

InitConfig == \E p \in Configs \cup BadConfigs : Blank(p) /\ NoExperiments

\* ------------------------------------------------------------ construction
\* run_simulation lines 13-17: env = simpy.Environment(); WebServiceModel(env,
\* params); results = []; last_update = 0.  __init__ checks nothing and schedules the two processes' first runs.
Construct ==
    /\ ~constructed
    /\ constructed' = TRUE
    /\ capacity' = [s \in Servers |-> 1]
    /\ users' = [s \in Servers |-> <<>>]
    /\ put_queue' = [s \in Servers |-> <<>>]
    /\ total_requests' = 0
    /\ completed_requests' = 0
    /\ failed_requests' = 0
    /\ latency' = <<>>
    /\ available_servers' = params.num_servers
    /\ queue' = Schedule(Schedule(<<>>, Event(now, TRUE, "gen_init", 0, 0)),
                         Event(now, TRUE, "fail_init", 0, 0))
    /\ fpc' = "start"
    /\ results' = <<>>
    /\ last_update' = 0
    /\ returned' = FALSE
    /\ UNCHANGED <<optvars, params, error, now, t, request_id, fserver, hpc, hserver,
                   arrival_time, processing_time, completion_time, completed_ids>>

\* ------------------------------------------------------------- scheduler
\* env.run(until=t + 1) pops an event only while its time is before t + 1.
Running == constructed /\ error = "none" /\ t <= MaxTime

Due_inclusive(kind) ==
    /\ Running
    /\ queue # <<>>
    /\ Head(queue).time <= t + 1
    /\ Head(queue).kind = kind

Due(kind) ==
    /\ Running
    /\ queue # <<>>
    /\ Head(queue).time < t + 1
    /\ Head(queue).kind = kind

\* env.step: pop the head, move the clock to it.
Pop == Tail(queue)

\* ------------------------------------------------------------- get_metrics
\* Lines 145-154.  avg_latency is the quotient sum/len, kept as a fraction.
get_metrics ==
    [total_requests |-> total_requests,
     completed_requests |-> completed_requests,
     failed_requests |-> failed_requests,
     avg_latency |-> IF latency # <<>>
                     THEN [num |-> Sum(latency), den |-> Len(latency)]
                     ELSE [num |-> 0, den |-> 1],
     available_servers |-> available_servers]

latency_after_get_metrics_cleared == <<>>

\* get_metrics assigns nothing: self.latency after the call.
latency_after_get_metrics == latency

\* ---------------------------------------------------------- run_simulation
\* update_interval of run_simulation (app.py), chosen so that the loop takes
\* one periodic snapshot, in its last round.
update_interval == MaxTime

\* Lines 20-28: env.run(until=t + 1) returns with the clock at t + 1; every
\* update_interval rounds the metrics are read and kept; the loop goes on.
RunUntil ==
    /\ Running
    /\ queue = <<>> \/ Head(queue).time >= t + 1
    /\ now' = t + 1
    /\ IF t - last_update >= update_interval
       THEN /\ results' = Append(results,
                    [metrics |-> get_metrics, time |-> t, now |-> t + 1])
            /\ last_update' = t
            /\ latency' = latency_after_get_metrics
       ELSE UNCHANGED <<results, last_update, latency>>
    /\ t' = t + 1
    /\ UNCHANGED <<optvars, returned, params, constructed, error, queue, capacity,
                   users, put_queue, total_requests, completed_requests,
                   failed_requests, available_servers, request_id, fpc, fserver,
                   hpc, hserver, arrival_time, processing_time, completion_time,
                   completed_ids>>

\* Lines 36-41: after the loop the metrics are read once more.
FinalMetrics ==
    /\ constructed
    /\ error = "none"
    /\ t = MaxTime + 1
    /\ ~returned
    /\ results' = Append(results,
            [metrics |-> get_metrics, time |-> MaxTime, now |-> now])
    /\ latency' = latency_after_get_metrics
    /\ returned' = TRUE
    /\ UNCHANGED <<optvars, last_update, params, constructed, error, now, t, queue,
                   capacity, users, put_queue, total_requests, completed_requests,
                   failed_requests, available_servers, request_id, fpc, fserver,
                   hpc, hserver, arrival_time, processing_time, completion_time,
                   completed_ids>>

\* ------------------------------------------------------- generate_requests
\* Lines 96-108: count the next request, draw the interarrival time, sleep.
GenLoop(q) ==
    /\ total_requests' = total_requests + 1
    /\ request_id' = total_requests + 1
    /\ \E o \in RateDraw(params.request_rate_distribution, params.request_rate) :
          /\ error' = o.err
          /\ queue' = IF o.err = "none"
                      THEN Schedule(q, Event(Head(queue).time + o.d, FALSE, "gen_timeout", 0, 0))
                      ELSE q

GenStart ==
    /\ Due("gen_init")
    /\ now' = Head(queue).time
    /\ GenLoop(Pop)
    /\ UNCHANGED <<optvars, appvars, params, constructed, t, capacity, users, put_queue,
                   completed_requests, failed_requests, latency,
                   available_servers, fpc, fserver, hpc, hserver,
                   arrival_time, processing_time, completion_time, completed_ids>>

\* Line 111, then the loop again: spawn the handler of request_id.
GenArrive ==
    /\ Due("gen_timeout")
    /\ request_id <= MaxRequests
    /\ now' = Head(queue).time
    /\ hpc' = [hpc EXCEPT ![request_id] = "spawned"]
    /\ GenLoop(Schedule(Pop, Event(Head(queue).time, TRUE, "req_init", request_id, 0)))
    /\ UNCHANGED <<optvars, appvars, params, constructed, t, capacity, users, put_queue,
                   completed_requests, failed_requests, latency,
                   available_servers, fpc, fserver, hserver,
                   arrival_time, processing_time, completion_time, completed_ids>>

\* --------------------------------------------------------- simpy.Resource
\* Resource._do_put: a request is granted while len(users) < capacity.
CanGrant_ignoring_capacity(s) == Len(users[s]) < 1

CanGrant(s) == Len(users[s]) < capacity[s]

\* BaseResource._trigger_put on server s whose put_queue is pq: _do_put returns
\* None, so only the head of the queue is tried.  A granted request joins users
\* and its event is scheduled (normal priority) at the current time.
TriggerPut(s, pq, q, time) ==
    IF pq # <<>> /\ CanGrant(s)
    THEN [users |-> Append(users[s], Head(pq)),
          put_queue |-> Tail(pq),
          queue |-> Schedule(q, Event(time, FALSE, "req_granted", Head(pq), s))]
    ELSE [users |-> users[s], put_queue |-> pq, queue |-> q]

\* --------------------------------------------------------- process_request
\* Line 61: the scan takes a server whose users list is empty.
IsFree(s) == Len(users[s]) = 0

\* Lines 59-63: the first such server in list order, 0 for None.
FirstFree ==
    IF \E s \in Servers : IsFree(s)
    THEN CHOOSE s \in Servers : IsFree(s) /\ \A s2 \in Servers : s2 < s => ~IsFree(s2)
    ELSE 0

CountFailed_wrong_counter == total_requests + 1

CountFailed_not_counted == failed_requests

\* Line 67.
CountFailed == failed_requests + 1

Latency_processing_only(r, time) == processing_time[r]

\* Line 86.
Latency(r, time) == time - arrival_time[r]

\* Lines 55-72: first run of a handler.  Either no server has an empty users
\* list and the request is counted failed, or server.request() queues the
\* request on the chosen server and the handler waits for it.
HandlerStart ==
    /\ Due("req_init")
    /\ LET r == Head(queue).id
           time == Head(queue).time
           s == FirstFree
       IN  /\ now' = time
           /\ arrival_time' = [arrival_time EXCEPT ![r] = time]
           /\ \/ /\ s = 0
                 /\ failed_requests' = CountFailed
                 /\ hpc' = [hpc EXCEPT ![r] = "rejected"]
                 /\ queue' = Schedule(Pop, Event(time, FALSE, "end", r, 0))
                 /\ UNCHANGED <<users, put_queue, hserver>>
              \/ /\ s # 0
                 /\ LET g == TriggerPut(s, Append(put_queue[s], r), Pop, time)
                    IN  /\ users' = [users EXCEPT ![s] = g.users]
                        /\ put_queue' = [put_queue EXCEPT ![s] = g.put_queue]
                        /\ queue' = g.queue
                 /\ hserver' = [hserver EXCEPT ![r] = s]
                 /\ hpc' = [hpc EXCEPT ![r] = "waiting"]
                 /\ UNCHANGED failed_requests
    /\ UNCHANGED <<optvars, appvars, params, constructed, error, t, capacity, total_requests,
                   completed_requests, latency, available_servers, request_id,
                   fpc, fserver, processing_time, completion_time, completed_ids>>

\* Lines 72-81: the request event fires, the handler draws its processing time
\* and sleeps.
HandlerGranted ==
    /\ Due("req_granted")
    /\ LET r == Head(queue).id
           time == Head(queue).time
       IN  /\ now' = time
           /\ \E o \in ProcessingDraw :
                 /\ error' = o.err
                 /\ processing_time' = [processing_time EXCEPT ![r] = o.d]
                 /\ queue' = IF o.err = "none"
                             THEN Schedule(Pop, Event(time + o.d, FALSE, "req_timeout", r, 0))
                             ELSE Pop
           /\ hpc' = [hpc EXCEPT ![r] = "processing"]
    /\ UNCHANGED <<optvars, appvars, params, constructed, t, capacity, users, put_queue,
                   total_requests, completed_requests, failed_requests, latency,
                   available_servers, request_id, fpc, fserver, hserver,
                   arrival_time, completion_time, completed_ids>>

\* Lines 83-87 and the end of the with block: count the request, record its
\* latency, release the server (the user leaves at once, the release event is
\* scheduled), and the process ends.
HandlerComplete ==
    /\ Due("req_timeout")
    /\ LET r == Head(queue).id
           time == Head(queue).time
           s == hserver[r]
       IN  /\ now' = time
           /\ completed_requests' = completed_requests + 1
           /\ latency' = Append(latency, Latency(r, time))
           /\ completion_time' = [completion_time EXCEPT ![r] = time]
           /\ completed_ids' = Append(completed_ids, r)
           /\ users' = [users EXCEPT ![s] = SelectSeq(users[s], LAMBDA u : u # r)]
           /\ queue' = Schedule(Schedule(Pop, Event(time, FALSE, "release", 0, s)),
                                Event(time, FALSE, "end", r, 0))
           /\ hpc' = [hpc EXCEPT ![r] = "completed"]
    /\ UNCHANGED <<optvars, appvars, params, constructed, error, t, capacity, put_queue,
                   total_requests, failed_requests, available_servers,
                   request_id, fpc, fserver, hserver, arrival_time,
                   processing_time>>

\* The release event fires: its callback _trigger_put grants the server to the
\* head of its put_queue, if it can.
ReleaseDone ==
    /\ Due("release")
    /\ LET s == Head(queue).srv
           time == Head(queue).time
           g == TriggerPut(s, put_queue[s], Pop, time)
       IN  /\ now' = time
           /\ users' = [users EXCEPT ![s] = g.users]
           /\ put_queue' = [put_queue EXCEPT ![s] = g.put_queue]
           /\ queue' = g.queue
    /\ UNCHANGED <<optvars, appvars, params, constructed, error, t, capacity, total_requests,
                   completed_requests, failed_requests, latency,
                   available_servers, request_id, fpc, fserver, hpc, hserver,
                   arrival_time, processing_time, completion_time, completed_ids>>

\* The event of a process that returned: nothing waits for it.
ProcessEnd ==
    /\ Due("end")
    /\ now' = Head(queue).time
    /\ queue' = Pop
    /\ UNCHANGED <<optvars, appvars, params, constructed, error, t, capacity, users, put_queue,
                   total_requests, completed_requests, failed_requests, latency,
                   available_servers, request_id, fpc, fserver, hpc, hserver,
                   arrival_time, processing_time, completion_time, completed_ids>>

\* --------------------------------------------------------- server_failures
NotInUse_unchecked(s) == TRUE

\* Line 129: a server is taken down only if nobody uses it.
NotInUse(s) == Len(users[s]) = 0

AvailableAfterRecovery_forgotten == available_servers

\* Line 143.
AvailableAfterRecovery == available_servers + 1

AwaitRecovery_skipped == "to_failure"

\* Line 141: the process sleeps for the recovery time and resumes at line 142.
AwaitRecovery == "recovering"

Recovered_still_down(s) == capacity

\* Line 142: server._capacity = 1 for the server that was taken down.
Recovered(s) == [capacity EXCEPT ![s] = 1]

\* Lines 117-125: draw the time to the next failure and sleep.
FailLoop(q) ==
    \E o \in RateDraw(params.failure_rate_distribution, params.failure_rate) :
        /\ error' = o.err
        /\ fpc' = IF o.err = "none" THEN "to_failure" ELSE fpc
        /\ queue' = IF o.err = "none"
                    THEN Schedule(q, Event(Head(queue).time + o.d, FALSE, "fail_timeout", 0, 0))
                    ELSE q

FailStart ==
    /\ Due("fail_init")
    /\ now' = Head(queue).time
    /\ FailLoop(Pop)
    /\ UNCHANGED <<optvars, appvars, params, constructed, t, capacity, users, put_queue,
                   total_requests, completed_requests, failed_requests, latency,
                   available_servers, request_id, fserver, hpc, hserver,
                   arrival_time, processing_time, completion_time, completed_ids>>

\* Lines 128-141: pick any server; if it has no user, force its capacity to 0
\* and sleep for the recovery time, else go round the loop.
FailAttempt ==
    /\ Due("fail_timeout")
    /\ fpc = "to_failure"
    /\ now' = Head(queue).time
    /\ \/ /\ Servers = {}
          /\ error' = "IndexError"
          /\ queue' = Pop
          /\ UNCHANGED <<capacity, available_servers, fpc, fserver>>
       \/ \E s \in Servers :
             /\ fserver' = s
             /\ \/ /\ NotInUse(s)
                   /\ capacity' = [capacity EXCEPT ![s] = 0]
                   /\ available_servers' = available_servers - 1
                   /\ \E o \in RateDraw(params.recovery_time_distribution,
                                        params.recovery_rate) :
                         /\ error' = o.err
                         /\ fpc' = IF o.err = "none" THEN AwaitRecovery ELSE fpc
                         /\ queue' = IF o.err = "none"
                                     THEN Schedule(Pop, Event(Head(queue).time + o.d,
                                                   FALSE, "fail_timeout", 0, 0))
                                     ELSE Pop
                \/ /\ ~NotInUse(s)
                   /\ FailLoop(Pop)
                   /\ UNCHANGED <<capacity, available_servers>>
    /\ UNCHANGED <<optvars, appvars, params, constructed, t, users, put_queue, total_requests,
                   completed_requests, failed_requests, latency, request_id,
                   hpc, hserver, arrival_time, processing_time, completion_time,
                   completed_ids>>

\* Lines 142-143, then the loop again: the server taken down gets capacity 1.
FailRecover ==
    /\ Due("fail_timeout")
    /\ fpc = "recovering"
    /\ now' = Head(queue).time
    /\ capacity' = Recovered(fserver)
    /\ available_servers' = AvailableAfterRecovery
    /\ FailLoop(Pop)
    /\ UNCHANGED <<optvars, appvars, params, constructed, t, users, put_queue, total_requests,
                   completed_requests, failed_requests, latency, request_id,
                   fserver, hpc, hserver, arrival_time, processing_time,
                   completion_time, completed_ids>>

Next ==
    \/ Construct
    \/ RunUntil
    \/ FinalMetrics
    \/ GenStart
    \/ GenArrive
    \/ HandlerStart
    \/ HandlerGranted
    \/ HandlerComplete
    \/ ReleaseDone
    \/ ProcessEnd
    \/ FailStart
    \/ FailAttempt
    \/ FailRecover

Spec == Init /\ [][Next]_vars

SpecConfig == InitConfig /\ [][Next]_vars

\* ------------------------------------------------------ optimize_simulation
\* optim_app.py lines 36-57: the configuration of one trial.  randint draws
\* num_servers from its range (here 1..MaxServers); the ranges of the four
\* rates are the single point 1; the distributions are fixed.
simulation_params ==
    {[num_servers |-> n, request_rate |-> 1, failure_rate |-> 1,
      server_processing_time |-> 1, recovery_rate |-> 1,
      request_rate_distribution |-> "exponential",
      server_processing_time_distribution |-> "normal",
      failure_rate_distribution |-> "exponential",
      recovery_time_distribution |-> "exponential"] : n \in 1..MaxServers}

\* a < b for two avg_latency quotients sum/len (len > 0).
Less(a, b) == a.num * b.den < b.num * a.den

IsBetter_or_equal(metrics) ==
    \/ best_metrics = <<>>
    \/ ~Less(best_metrics[1].avg_latency, metrics.avg_latency)

\* Line 66: best_metrics is None or metrics["avg_latency"] is strictly smaller.
IsBetter(metrics) ==
    \/ best_metrics = <<>>
    \/ Less(metrics.avg_latency, best_metrics[1].avg_latency)

\* Lines 30-32 and the first pass through lines 36-57.
InitOptim ==
    \E p \in simulation_params, k \in 1..MaxExperiments :
        /\ Blank(p)
        /\ num_experiments = k
        /\ all_results = <<>>
        /\ best_params = <<>>
        /\ best_metrics = <<>>

\* Lines 18-19 and 63-68, then lines 36-57 of the next pass: env.run(until=
\* simulation_time) has returned (simulation_time = MaxTime + 1, the rounds of
\* RunUntil put end to end), the metrics are read, recorded and compared with
\* the best so far; if a trial remains, its configuration is drawn and a new
\* Environment and model start from scratch.
Trial ==
    /\ constructed
    /\ error = "none"
    /\ t = MaxTime + 1
    /\ Len(all_results) < num_experiments
    /\ all_results' = Append(all_results, [params |-> params, metrics |-> get_metrics])
    /\ IF IsBetter(get_metrics)
       THEN /\ best_metrics' = <<get_metrics>>
            /\ best_params' = <<params>>
       ELSE UNCHANGED <<best_metrics, best_params>>
    /\ IF Len(all_results) + 1 < num_experiments
       THEN /\ params' \in simulation_params
            /\ constructed' = FALSE
            /\ now' = 0
            /\ t' = 0
            /\ queue' = <<>>
            /\ capacity' = <<>>
            /\ users' = <<>>
            /\ put_queue' = <<>>
            /\ total_requests' = 0
            /\ completed_requests' = 0
            /\ failed_requests' = 0
            /\ latency' = <<>>
            /\ available_servers' = 0
            /\ request_id' = 0
            /\ fpc' = "none"
            /\ fserver' = 0
            /\ hpc' = [r \in Requests |-> "none"]
            /\ hserver' = [r \in Requests |-> 0]
            /\ arrival_time' = [r \in Requests |-> 0]
            /\ processing_time' = [r \in Requests |-> 0]
            /\ completion_time' = [r \in Requests |-> 0]
            /\ completed_ids' = <<>>
            /\ results' = <<>>
            /\ last_update' = 0
       ELSE UNCHANGED <<params, constructed, now, t, queue, capacity, users, put_queue,
                        total_requests, completed_requests, failed_requests, latency,
                        available_servers, request_id, fpc, fserver, hpc, hserver,
                        arrival_time, processing_time, completion_time,
                        completed_ids, results, last_update>>
    /\ UNCHANGED <<num_experiments, error, returned>>

NextOptim ==
    \/ Construct
    \/ RunUntil
    \/ GenStart
    \/ GenArrive
    \/ HandlerStart
    \/ HandlerGranted
    \/ HandlerComplete
    \/ ReleaseDone
    \/ ProcessEnd
    \/ FailStart
    \/ FailAttempt
    \/ FailRecover
    \/ Trial

SpecOptim == InitOptim /\ [][NextOptim]_vars

\* env.run keeps stepping while an event is due before the deadline, and the
\* loop of run_simulation keeps calling it: no enabled step is postponed forever.
SpecFair == Spec /\ WF_vars(Next)

\* ================================================================ claims
\* The contract's view of a server: Up is capacity 1, busy is a non-empty
\* users list.
Up(s) == capacity[s] = 1
Busy(s) == users[s] # <<>>
isAvailable(s) == Up(s) /\ ~Busy(s)

\* The configurations the interface contract allows; the code has no such test.
ValidConfig(p) ==
    /\ p.num_servers > 0
    /\ p.server_processing_time > 0
    /\ p.request_rate > 0
    /\ p.failure_rate > 0
    /\ p.recovery_rate > 0
    /\ p.custom_values # <<>>

Pending == {r \in Requests : hpc[r] \in {"spawned", "waiting", "processing"}}

\* C1: a handler that goes on to request a server has chosen the lowest-index
\* server that was available (Up and not busy) when it started; it never
\* chooses a Down server.
C1_SelectsLowestAvailable ==
    [][\A r \in Requests :
          hpc[r] = "spawned" /\ hpc'[r] = "waiting"
          => /\ isAvailable(hserver'[r])
             /\ \A s \in Servers : s < hserver'[r] => ~isAvailable(s)]_vars

\* C2: a handler that starts when no server is available (Up and not busy) is
\* rejected in that same step: failed_requests grows by exactly 1 and the
\* request is queued nowhere.
C2_RejectedWhenNoneAvailable ==
    [][\A r \in Requests :
          /\ hpc[r] = "spawned"
          /\ hpc'[r] # "spawned"
          /\ \A s \in Servers : ~isAvailable(s)
          => /\ hpc'[r] = "rejected"
             /\ failed_requests' = failed_requests + 1
             /\ put_queue' = put_queue]_vars

\* C3: no step takes a server from Up to Down while it has a user.
C3_NoFailureWhileBusy ==
    [][\A s \in DOMAIN capacity :
          capacity[s] = 1 /\ capacity'[s] = 0 => users[s] = <<>>]_vars

\* A server has been taken down while another one is serving a request.
C3_Witness ==
    /\ constructed
    /\ \E s \in Servers : capacity[s] = 0 /\ \E s2 \in Servers : s2 # s /\ Busy(s2)

\* C4: in every state a server with a user has capacity 1.
C4_BusyImpliesUp == \A s \in DOMAIN users : Busy(s) => Up(s)

\* A request was granted a restored server while another request waits for it.
C4_Witness ==
    /\ constructed
    /\ \E s \in Servers : Busy(s) /\ put_queue[s] # <<>> /\ fserver = s

\* C5: completed_requests + failed_requests <= total_requests in every state,
\* and no step decreases any of the three counters.
C5_CountersBounded ==
    /\ [](completed_requests + failed_requests <= total_requests)
    /\ [][/\ total_requests' >= total_requests
          /\ completed_requests' >= completed_requests
          /\ failed_requests' >= failed_requests]_vars

\* One request has been completed and another one rejected.
C5_Witness == completed_requests >= 1 /\ failed_requests >= 1

\* C6: once the model exists, available_servers is the number of servers with
\* capacity 1 and lies in 0..num_servers.
C6_AvailableIsUpCount ==
    constructed =>
        /\ available_servers = Cardinality({s \in Servers : Up(s)})
        /\ 0 <= available_servers
        /\ available_servers <= params.num_servers

\* A server is down again after an earlier one was restored.
C6_Witness ==
    /\ constructed
    /\ fpc = "recovering"
    /\ available_servers = params.num_servers - 1
    /\ \E s \in Servers : Up(s) /\ put_queue[s] # <<>>

\* C7: the latency list has completed_requests samples, the i-th being
\* completion time - arrival time of the i-th completed request (all distinct),
\* and avg_latency is their sum over their number (0 when there is none).
C7_LatencySamples ==
    /\ Len(latency) = completed_requests
    /\ Len(completed_ids) = completed_requests
    /\ Cardinality(Elems(completed_ids)) = completed_requests
    /\ \A i \in 1..Len(completed_ids) :
          /\ hpc[completed_ids[i]] = "completed"
          /\ latency[i] = completion_time[completed_ids[i]] - arrival_time[completed_ids[i]]
    /\ get_metrics.avg_latency =
          IF completed_requests = 0
          THEN [num |-> 0, den |-> 1]
          ELSE [num |-> Sum([i \in 1..Len(completed_ids) |->
                                completion_time[completed_ids[i]]
                                - arrival_time[completed_ids[i]]]),
                den |-> completed_requests]

\* Two requests are completed, one of which waited before it was served.
C7_Witness ==
    /\ completed_requests >= 2
    /\ \E i \in 1..Len(latency) : latency[i] > processing_time[completed_ids[i]]

\* C8: with the processing distribution `custom`, every processing time drawn
\* is an element of the configured custom_values.
C8_CustomDrawsConfiguredValues ==
    \A r \in Requests :
        /\ params.server_processing_time_distribution = "custom"
        /\ hpc[r] \in {"processing", "completed"}
        => processing_time[r] \in Elems(params.custom_values)

\* C9: total_requests is the number of handlers spawned, that is completed +
\* failed + pending.
C9_TotalIsArrived ==
    constructed =>
        /\ total_requests = Cardinality({r \in Requests : hpc[r] # "none"})
        /\ total_requests = completed_requests + failed_requests + Cardinality(Pending)

\* C10: a configuration outside the contract yields no model and no process.
C10_InvalidConfigRefused ==
    ~ValidConfig(params) => ~constructed /\ queue = <<>>

\* What get_metrics may only read: the counters, the latency list, the servers
\* and the event queue.
ModelState ==
    <<total_requests, completed_requests, failed_requests, latency,
      available_servers, capacity, users, put_queue, queue>>

\* C12: a step that takes a snapshot leaves the counters, the latency list, the
\* servers and the event queue as they were, and two snapshots taken at the same
\* clock value carry the same metrics.
C12_SnapshotIsPureRead ==
    /\ [][constructed /\ Len(results') > Len(results) => ModelState' = ModelState]_vars
    /\ [](\A i, j \in 1..Len(results) :
            results[i].now = results[j].now => results[i].metrics = results[j].metrics)

\* The last round's snapshot and the final one were taken at the same clock
\* value, with at least one latency sample recorded.
C12_Witness ==
    /\ Len(results) = 2
    /\ results[1].now = results[2].now
    /\ results[2].metrics.completed_requests >= 1

\* C14: no request waits for a server: every put_queue is empty, every recorded
\* latency is the processing time drawn for its request, and the requests
\* accepted and not yet completed never outnumber the servers.
C14_NoQueueing ==
    constructed =>
        /\ \A s \in Servers : put_queue[s] = <<>>
        /\ \A i \in 1..Len(completed_ids) :
              latency[i] = processing_time[completed_ids[i]]
        /\ Cardinality({r \in Requests : hpc[r] \in {"waiting", "processing"}})
              <= params.num_servers

Kept == Elems(Tail(queue))

QueueDistinct == Cardinality(Elems(queue)) = Len(queue)

\* C18: failed_requests is the number of requests rejected at arrival,
\* completed_requests the number of requests that ran to completion, and a
\* request that has a server or waits for one is never turned into a failed one.
C18_NoInterrupt ==
    /\ [](/\ failed_requests = Cardinality({r \in Requests : hpc[r] = "rejected"})
          /\ completed_requests = Cardinality({r \in Requests : hpc[r] = "completed"}))
    /\ [][\A r \in Requests :
             /\ hpc[r] \in {"waiting", "processing"}
                => hpc'[r] \in {"waiting", "processing", "completed"}
             /\ hpc[r] = "processing" /\ hpc'[r] # "processing"
                => /\ hpc'[r] = "completed"
                   /\ now' = arrival_time[r] + Latency(r, now')
                   /\ failed_requests' = failed_requests]_vars

\* One request was rejected at arrival while another, granted a server, ran to
\* completion.
C18_Witness ==
    /\ \E r \in Requests : hpc[r] = "rejected"
    /\ \E r \in Requests : hpc[r] = "completed" /\ processing_time[r] > 0

\* C19: at most one server is down, it is the one the failure process is
\* recovering, every failure attempt finds all servers up, and
\* available_servers is num_servers or num_servers - 1.
C19_AtMostOneDown ==
    constructed =>
        /\ Cardinality({s \in Servers : capacity[s] = 0}) <= 1
        /\ \A s \in Servers : capacity[s] = 0 => fpc = "recovering" /\ fserver = s
        /\ fpc # "recovering" => \A s \in Servers : capacity[s] = 1
        /\ available_servers \in {params.num_servers, params.num_servers - 1}

\* With two servers, one is down while the other, up, has a request queued on it.
C19_Witness ==
    /\ constructed
    /\ params.num_servers = 2
    /\ \E s \in Servers : capacity[s] = 0 /\ \E s2 \in Servers : put_queue[s2] # <<>> /\ capacity[s2] = 1

\* The recovery timeout of the failure process is due within the simulated time.
RecoveryWithinHorizon ==
    \E i \in 1..Len(queue) : queue[i].kind = "fail_timeout" /\ queue[i].time <= MaxTime

\* The run cannot go on: an exception ended it, or the next arrival is beyond
\* the number of requests followed.
Halted ==
    \/ error # "none"
    \/ /\ queue # <<>>
       /\ Head(queue).kind = "gen_timeout"
       /\ request_id > MaxRequests

\* Server s exists and its capacity is c.
CapacityIs(s, c) == IF s \in DOMAIN capacity THEN capacity[s] = c ELSE FALSE

\* C15: a server taken down is restored once its recovery time has elapsed (if
\* the run goes on that long); the server restored is the one taken down, at
\* the time its recovery timeout is due, and available_servers is then back to
\* num_servers; while a server is down its recovery timeout is pending.
C15_EventuallyRestored ==
    /\ \A s \in 1..MaxServers :
          (CapacityIs(s, 0) /\ RecoveryWithinHorizon) ~> (CapacityIs(s, 1) \/ Halted)
    /\ [](\A s \in 1..MaxServers :
             CapacityIs(s, 0)
                => \E i \in 1..Len(queue) : queue[i].kind = "fail_timeout")
    /\ [][\A s \in 1..MaxServers :
             CapacityIs(s, 0) /\ CapacityIs(s, 1)'
                => /\ fserver = s
                   /\ Head(queue).kind = "fail_timeout"
                   /\ now' = Head(queue).time
                   /\ available_servers' = available_servers + 1
                   /\ available_servers' = params.num_servers]_vars

\* A server that was down, with a request queued on it meanwhile, is up again
\* and every server is counted available.
C15_Witness ==
    /\ constructed
    /\ \A s \in Servers : capacity[s] = 1
    /\ fserver \in Servers
    /\ put_queue[fserver] # <<>>
    /\ available_servers = params.num_servers

\* Index of the earliest entry of all_results whose avg_latency is minimal.
EarliestMinimal ==
    CHOOSE i \in 1..Len(all_results) :
        /\ \A j \in 1..Len(all_results) :
              ~Less(all_results[j].metrics.avg_latency, all_results[i].metrics.avg_latency)
        /\ \A j \in 1..(i - 1) :
              Less(all_results[i].metrics.avg_latency, all_results[j].metrics.avg_latency)

\* C20: after any number of trials the best pair is the (params, metrics) of
\* the earliest trial with minimal avg_latency (None before the first trial),
\* and all_results has one entry per trial, appended in trial order: each
\* trial's entry is its configuration with the metrics of its run, and earlier
\* entries never change.
C20_BestIsEarliestMinimum ==
    /\ [](/\ Len(all_results) <= num_experiments
          /\ all_results = <<>> => best_params = <<>> /\ best_metrics = <<>>
          /\ all_results # <<>> =>
                /\ best_params = <<all_results[EarliestMinimal].params>>
                /\ best_metrics = <<all_results[EarliestMinimal].metrics>>)
    /\ [][all_results' # all_results =>
             all_results' = Append(all_results, [params |-> params,
                                                 metrics |-> get_metrics])]_vars

\* All trials are done, at least two, the first two tie on avg_latency with
\* different configurations, and no trial did better.
C20_Witness ==
    /\ num_experiments >= 2
    /\ Len(all_results) = num_experiments
    /\ all_results[1].metrics.avg_latency = all_results[2].metrics.avg_latency
    /\ all_results[1].params # all_results[2].params
    /\ EarliestMinimal = 1
    /\ best_params = <<all_results[1].params>>

\* C11: two runs of the same configuration to the same horizon in one process
\* yield the same metrics.
C11_SameConfigSameMetrics ==
    \A i, j \in 1..Len(all_results) :
        all_results[i].params = all_results[j].params
            => all_results[i].metrics = all_results[j].metrics

====
